---- MODULE Spec2Model ----
(***************************************************************************)
(* Heartbeat supervision of an exhibited VM: the HeartbeatMonitor state    *)
(* machine (heartbeat_monitor.py), the VMManager lifecycle controller      *)
(* (vm_manager.py) and the recovery callback and request handlers that     *)
(* wire them together (api.py).                                            *)
(*                                                                         *)
(* Time is time.time() in whole units.  The event loop runs one handler    *)
(* or one loop iteration at a time (each is one action); the blocking      *)
(* virsh calls run on executor threads and are the steps of `job`.         *)
(***************************************************************************)
EXTENDS Integers, FiniteSets, Sequences, TLC

\* ---- bounds of the model -------------------------------------------------
\* heartbeat_timeout and heartbeat_check_interval are configuration values
\* (any positive number); the model runs them at small values.
Timeout == 3
CheckInterval == 2
\* vm_startup_heartbeat_delay, likewise
SettleDelay == 1
\* the clock stops here
MaxTime == 10
\* the count of callback invocations since the last heartbeat saturates here
CbCap == 2
\* requests (heartbeats, flag flips, starts, stops) and backend events in one run
MaxCalls == 3
\* largest max_attempts handed to wait_for_vm_ready()
MaxAttempts == 3
\* wait_for_vm_ready()'s default max_attempts, used by restart_vm()
DefaultMaxAttempts == 30

None == -1

VARIABLES
    calls,                      \* requests and backend events so far (bounded by MaxCalls)
    now,                        \* time.time()
    auto_revert_enabled,        \* VMManager.auto_revert_enabled
    last_heartbeat,             \* HeartbeatMonitor.last_heartbeat (None or a time)
    was_monitoring,             \* HeartbeatMonitor._was_monitoring
    actual_heartbeat_received,  \* HeartbeatMonitor._actual_heartbeat_received
    manual_stop,                \* HeartbeatMonitor._manual_stop
    task,                       \* position of the loop task (_check_task)
    wake,                       \* when the task's current asyncio.sleep ends
    job,                        \* position of each executor thread's VMManager call
    vm_running,                 \* backend: virsh domstate is "running"
    snapshot_present,           \* backend: the reference snapshot is listed
    \* history variables (read by the properties only)
    hb_at,                      \* time of the last receive_heartbeat() since reset()
    armed,                      \* last_heartbeat was last written by the loop
    auto_since_hb,              \* auto-revert enabled at and ever since the last heartbeat
    steady,                     \* C6's conditions held at and ever since the last heartbeat
    cb_since_hb,                \* callback invocations since the last heartbeat
    fired,                      \* why the latest tick invoked the callback, or "none"
    enabled_at,                 \* time of the last off->on flip of auto-revert
    observed_off,               \* the loop had seen the flag off before that flip
    op_stopped,                 \* an operator stop was requested and no start since
    cb_outcome,                 \* how the latest callback invocation ended
    cb_restart_returned,        \* its restart_vm returned without raising
    live_tasks,                 \* loop tasks created and not yet finished
    warned,                     \* start_monitoring() found a task running and returned
    stop_response,              \* answer to the latest /api/v1/vm/stop request
    lifespan_pc,                \* position of api.py's lifespan (startup, shutdown)
    \* one VMManager call at a time, followed step by step
    vm_call,                    \* the method called and its arguments, or NoCall
    vm_pc,                      \* position inside that method
    attempt,                    \* wait_for_vm_ready's loop variable
    vm_log,                     \* what the call has done so far, in order
    vm_result,                  \* how the call ended: return value or exception
    vm_prev,                    \* the call before: method, snapshot name, how it ended
    extra_present,              \* backend: a second snapshot name is listed
    \* history variables of the loop's timing
    cb_at,                      \* time the loop last invoked the callback, if less
                                \* than check_interval ago
    restarted_at,               \* time the latest start_vm's revert completed with
                                \* a heartbeat received since its reset() and none
                                \* after it, if less than timeout ago
    off_period                  \* the disabled period that began at construction:
                                \* "running" while it lasts, "long" once auto-revert
                                \* was switched on after more than timeout of it,
                                \* "other" in every other case

monitor == <<last_heartbeat, was_monitoring, actual_heartbeat_received, manual_stop>>
program == <<auto_revert_enabled, monitor, task, wake, job, vm_running, snapshot_present>>
history == <<hb_at, armed, auto_since_hb, steady, cb_since_hb, fired, enabled_at,
             observed_off, op_stopped, cb_outcome, cb_restart_returned>>
lifecycle == <<live_tasks, warned, stop_response, lifespan_pc>>
vmcall == <<vm_call, vm_pc, attempt, vm_log, vm_result, vm_prev, extra_present>>
timing == <<cb_at, restarted_at, off_period>>
vars == <<now, program, history, calls, lifecycle, vmcall, timing>>

\* executor threads: the loop's callback, a request handler, and a thread whose
\* awaiting task was cancelled (the model follows one such thread at a time)
Workers == {"mon", "op", "orphan"}

\* a VMManager method call: the method, the snapshot name it is given,
\* wait_for_ready, max_attempts, and what on_reset_callback is set to
Call(op, name, wait, max, cb) ==
    [op |-> op, name |-> name, wait |-> wait, max_attempts |-> max, reset_cb |-> cb]
NoCall == Call("none", "ready", FALSE, 0, "none")

\* ---- HeartbeatMonitor ----------------------------------------------------

\* is_timed_out() on explicit arguments: the flag, the timestamp, the clock
TimedOut_NoFlagCheck(flag, hb, t) == hb # None /\ t - hb > Timeout
TimedOut_AtThreshold(flag, hb, t) == flag /\ hb # None /\ t - hb >= Timeout
TimedOut(flag, hb, t) == flag /\ hb # None /\ t - hb > Timeout

IsTimedOut == TimedOut(auto_revert_enabled, last_heartbeat, now)

\* get_status()["enabled"]
GetStatusEnabled_OwnFlag == was_monitoring
GetStatusEnabled == auto_revert_enabled

\* get_status()["last_heartbeat"]
GetStatusLastHeartbeat ==
    IF actual_heartbeat_received THEN last_heartbeat ELSE None

\* reset(): the values it leaves in <<last_heartbeat, received, manual_stop>>
ResetValues_KeepsTimestamp == <<last_heartbeat, FALSE, FALSE>>
ResetValues_KeepsReceived == <<None, actual_heartbeat_received, FALSE>>
ResetValues == <<None, FALSE, FALSE>>

\* the loop's timer stamp of one iteration: the value of last_heartbeat after
\* "if not self._was_monitoring" and "if self.last_heartbeat is None"
Stamps == ~was_monitoring \/ last_heartbeat = None
RearmedHeartbeat_NoRearm == IF last_heartbeat = None THEN now ELSE last_heartbeat
RearmedHeartbeat_NoneStays == IF ~was_monitoring THEN now ELSE last_heartbeat
RearmedHeartbeat == IF Stamps THEN now ELSE last_heartbeat

\* VMManager.is_running()
IsRunning == vm_running

\* what one iteration of the loop finds: "vm_down", "timeout" or "none"
TickCause_IgnoresManualStop ==
    IF ~IsRunning THEN "vm_down"
    ELSE IF TimedOut(auto_revert_enabled, RearmedHeartbeat, now) THEN "timeout"
    ELSE "none"
TickCause ==
    IF ~manual_stop /\ ~IsRunning THEN "vm_down"
    ELSE IF ~manual_stop /\ TimedOut(auto_revert_enabled, RearmedHeartbeat, now)
         THEN "timeout"
    ELSE "none"

\* the loop's asyncio.sleep(check_interval) at the end of an iteration
NextWake_NoSleep == now
NextWake == now + CheckInterval

\* "result = callback(); if iscoroutine(result): await result": the loop
\* task stays at the position where the callback suspended
AwaitResult_Dropped(pos) == "sleep"
AwaitResult(pos) == pos

\* the "except Exception" around the callback logs the error; the loop task
\* goes on to its sleep
AfterCallbackFailure_Propagates == "none"
AfterCallbackFailure == "sleep"

\* ---- the recovery callback (api.py, on_heartbeat_timeout) ----------------

\* the callback's own gate
CallbackRestarts_Always == TRUE
CallbackRestarts == auto_revert_enabled

\* the callback up to its first await: hand restart_vm to the executor, or
\* log that manual intervention is required and return
CallbackBegin ==
    IF CallbackRestarts
    THEN /\ task' = AwaitResult("cb_restart")
         /\ job' = [job EXCEPT !["mon"] = "start"]
         /\ cb_outcome' = "none"
         /\ cb_restart_returned' = FALSE
    ELSE /\ cb_outcome' = "skipped"
         /\ cb_restart_returned' = FALSE
         /\ UNCHANGED <<task, job>>

Init ==
    /\ calls = 0
    /\ now = 0
    /\ auto_revert_enabled \in BOOLEAN
    /\ last_heartbeat = None
    /\ was_monitoring = FALSE
    /\ actual_heartbeat_received = FALSE
    /\ manual_stop = FALSE
    /\ task = "none"
    /\ wake = 0
    /\ job = [w \in Workers |-> "idle"]
    /\ vm_running \in BOOLEAN
    /\ snapshot_present \in BOOLEAN
    /\ hb_at = None
    /\ armed = FALSE
    /\ auto_since_hb = FALSE
    /\ steady = FALSE
    /\ cb_since_hb = 0
    /\ fired = "none"
    /\ enabled_at = None
    /\ observed_off = FALSE
    /\ op_stopped = FALSE
    /\ cb_outcome = "none"
    /\ cb_restart_returned = FALSE
    /\ live_tasks = 0
    /\ warned = FALSE
    /\ stop_response = "none"
    /\ lifespan_pc = "startup"
    /\ vm_call = NoCall
    /\ vm_pc = "idle"
    /\ attempt = 0
    /\ vm_log = <<>>
    /\ vm_result = "none"
    /\ vm_prev = <<"none", "ready", "none">>
    /\ extra_present = FALSE
    /\ cb_at = None
    /\ restarted_at = None
    /\ off_period = IF auto_revert_enabled THEN "other" ELSE "running"

\* a recorded time, kept while it is less than `span` old
Recent(at, span, t) == IF at # None /\ t - at < span THEN at ELSE None

\* time passes; a sleeping task wakes the moment its sleep ends
Advance ==
    /\ UNCHANGED calls
    /\ UNCHANGED <<lifecycle, vmcall>>
    /\ cb_at' = Recent(cb_at, CheckInterval, now + 1)
    /\ restarted_at' = Recent(restarted_at, Timeout, now + 1)
    /\ UNCHANGED off_period
    /\ now < MaxTime
    /\ task \in {"sleep", "cb_settle"} => now < wake
    /\ now' = now + 1
    /\ UNCHANGED <<program, history>>

\* start_monitoring() creates a task unless _check_task is a task not yet done
StartCreatesTask_Always == TRUE
StartCreatesTask == task = "none"

\* start_monitoring(): the new task runs its first iteration at once; with a
\* task running it logs a warning and returns
StartMonitoring ==
    IF StartCreatesTask
    THEN /\ UNCHANGED calls
         /\ task' = "sleep"
         /\ wake' = now
         /\ live_tasks' = live_tasks + 1
         /\ UNCHANGED <<now, auto_revert_enabled, monitor, job, vm_running,
                        snapshot_present, history, warned, stop_response, lifespan_pc,
                        vmcall, timing>>
    ELSE /\ calls < MaxCalls /\ calls' = calls + 1
         /\ warned' = TRUE
         /\ UNCHANGED <<now, program, history, live_tasks, stop_response, lifespan_pc,
                        vmcall, timing>>

\* stop_monitoring(): cancel the task and await it.  CancelledError is raised
\* at the task's current await (the loop's sleep, or inside the callback its
\* run_in_executor future or settle sleep); neither "except Exception" catches
\* it, so the task ends.  The executor thread of a cancelled run_in_executor
\* is not interrupted: restart_vm runs on, its result awaited by nobody.
StopMonitoring ==
    /\ calls < MaxCalls /\ calls' = calls + 1
    /\ job["mon"] \in {"start", "revert"} => job["orphan"] = "idle"
    /\ task' = "none"
    /\ live_tasks' = IF task = "none" THEN live_tasks ELSE live_tasks - 1
    /\ job' = [job EXCEPT !["mon"] = "idle",
                          !["orphan"] = IF job["mon"] \in {"start", "revert"}
                                        THEN job["mon"] ELSE job["orphan"]]
    /\ cb_outcome' = IF task \in {"cb_restart", "cb_settle"} THEN "cancelled"
                      ELSE cb_outcome
    /\ steady' = FALSE
    /\ wake' = 0
    /\ UNCHANGED <<now, auto_revert_enabled, monitor, vm_running,
                   snapshot_present, hb_at, armed, auto_since_hb, cb_since_hb,
                   fired, enabled_at, observed_off, op_stopped,
                   cb_restart_returned, warned, stop_response, lifespan_pc, vmcall,
                   timing>>

\* receive_heartbeat()
ReceiveHeartbeat ==
    /\ calls < MaxCalls /\ calls' = calls + 1
    /\ UNCHANGED <<lifecycle, vmcall, cb_at, off_period>>
    /\ restarted_at' = None
    /\ last_heartbeat' = now
    /\ actual_heartbeat_received' = TRUE
    /\ hb_at' = now
    /\ armed' = FALSE
    /\ auto_since_hb' = auto_revert_enabled
    /\ steady' = (/\ auto_revert_enabled /\ ~manual_stop /\ vm_running
                  /\ task = "sleep" /\ \A w \in Workers : job[w] = "idle")
    /\ cb_since_hb' = 0
    /\ UNCHANGED <<now, auto_revert_enabled, was_monitoring, manual_stop, task, wake,
                   job, vm_running, snapshot_present, fired, enabled_at,
                   observed_off, op_stopped, cb_outcome, cb_restart_returned>>

\* enable_auto_revert()
EnableAutoRevert ==
    /\ calls < MaxCalls /\ calls' = calls + 1
    /\ UNCHANGED <<lifecycle, vmcall, cb_at, restarted_at>>
    /\ off_period' = IF auto_revert_enabled THEN off_period
                     ELSE IF off_period = "running" /\ now > Timeout THEN "long"
                     ELSE "other"
    /\ auto_revert_enabled' = TRUE
    /\ enabled_at' = IF auto_revert_enabled THEN enabled_at ELSE now
    /\ observed_off' = IF auto_revert_enabled THEN observed_off ELSE ~was_monitoring
    /\ UNCHANGED <<now, monitor, task, wake, job, vm_running, snapshot_present,
                   hb_at, armed, auto_since_hb, steady, cb_since_hb, fired,
                   op_stopped, cb_outcome, cb_restart_returned>>

\* disable_auto_revert()
DisableAutoRevert ==
    /\ calls < MaxCalls /\ calls' = calls + 1
    /\ UNCHANGED <<lifecycle, vmcall, cb_at, restarted_at>>
    /\ off_period' = IF auto_revert_enabled THEN "other" ELSE off_period
    /\ auto_revert_enabled' = FALSE
    /\ auto_since_hb' = FALSE
    /\ steady' = FALSE
    /\ UNCHANGED <<now, monitor, task, wake, job, vm_running, snapshot_present,
                   hb_at, armed, cb_since_hb, fired, enabled_at, observed_off,
                   op_stopped, cb_outcome, cb_restart_returned>>

\* set_manual_stop()
SetManualStop ==
    /\ calls < MaxCalls /\ calls' = calls + 1
    /\ UNCHANGED <<lifecycle, vmcall, timing>>
    /\ manual_stop' = TRUE
    /\ steady' = FALSE
    /\ UNCHANGED <<now, auto_revert_enabled, last_heartbeat, was_monitoring,
                   actual_heartbeat_received, task, wake, job, vm_running,
                   snapshot_present, hb_at, armed, auto_since_hb, cb_since_hb,
                   fired, enabled_at, observed_off, op_stopped, cb_outcome,
                   cb_restart_returned>>

\* clear_manual_stop() that also switches auto-revert on
ClearManualStop_AlsoEnables ==
    /\ calls < MaxCalls /\ calls' = calls + 1
    /\ manual_stop' = FALSE
    /\ auto_revert_enabled' = TRUE
    /\ UNCHANGED <<now, last_heartbeat, was_monitoring, actual_heartbeat_received,
                   task, wake, job, vm_running, snapshot_present, history,
                   lifecycle, vmcall, timing>>

\* clear_manual_stop()
ClearManualStop ==
    /\ calls < MaxCalls /\ calls' = calls + 1
    /\ UNCHANGED <<lifecycle, vmcall, timing>>
    /\ manual_stop' = FALSE
    /\ UNCHANGED <<now, auto_revert_enabled, last_heartbeat, was_monitoring,
                   actual_heartbeat_received, task, wake, job, vm_running,
                   snapshot_present, history>>

\* one iteration of _monitoring_loop, up to its next await
LoopIteration(Invoke) ==
    /\ UNCHANGED calls
    /\ UNCHANGED <<lifecycle, vmcall, restarted_at, off_period>>
    /\ task = "sleep"
    /\ now >= wake
    /\ IF ~auto_revert_enabled
       THEN /\ was_monitoring' = FALSE
            /\ wake' = NextWake
            /\ fired' = "none"
            /\ UNCHANGED <<last_heartbeat, armed, cb_since_hb, task, job, cb_outcome,
                           cb_restart_returned, cb_at>>
       ELSE /\ was_monitoring' = TRUE
            /\ last_heartbeat' = RearmedHeartbeat
            /\ armed' = (Stamps \/ armed)
            /\ fired' = TickCause
            /\ wake' = NextWake
            /\ IF TickCause # "none"
               THEN /\ cb_since_hb' = IF cb_since_hb < CbCap THEN cb_since_hb + 1
                                     ELSE cb_since_hb
                    /\ cb_at' = now
                    /\ Invoke
               ELSE UNCHANGED <<cb_since_hb, task, job, cb_outcome,
                                cb_restart_returned, cb_at>>
    /\ UNCHANGED <<now, auto_revert_enabled, actual_heartbeat_received, manual_stop,
                   vm_running, snapshot_present, hb_at, auto_since_hb, steady,
                   enabled_at, observed_off, op_stopped>>

\* the loop of the application, whose callback is on_heartbeat_timeout
Tick == LoopIteration(CallbackBegin)

\* ---- VMManager on an executor thread -------------------------------------

\* start_vm() up to the revert: snapshot_exists(), then the reset callback
\* (HeartbeatMonitor.reset()); a missing snapshot raises RuntimeError
StartVmBegin(w) ==
    /\ UNCHANGED calls
    /\ UNCHANGED <<lifecycle, vmcall, cb_at, off_period>>
    /\ job[w] = "start"
    /\ IF snapshot_present
       THEN /\ restarted_at' = None
            /\ last_heartbeat' = ResetValues[1]
            /\ actual_heartbeat_received' = ResetValues[2]
            /\ manual_stop' = ResetValues[3]
            /\ hb_at' = None
            /\ armed' = FALSE
            /\ job' = [job EXCEPT ![w] = "revert"]
       ELSE /\ job' = [job EXCEPT ![w] = IF w = "mon" THEN "raised" ELSE "idle"]
            /\ UNCHANGED <<last_heartbeat, actual_heartbeat_received, manual_stop,
                           hb_at, armed, restarted_at>>
    /\ UNCHANGED <<now, auto_revert_enabled, was_monitoring, task, wake, vm_running,
                   snapshot_present, auto_since_hb, steady, cb_since_hb, fired,
                   enabled_at, observed_off, op_stopped, cb_outcome,
                   cb_restart_returned>>

\* virsh snapshot-revert: starts the VM, or fails (CalledProcessError); for
\* the callback's restart_vm the optional wait_for_vm_ready() follows, whose
\* result the callback does not read
Revert(w) ==
    /\ UNCHANGED calls
    /\ UNCHANGED <<lifecycle, vmcall, cb_at, off_period>>
    /\ job[w] = "revert"
    /\ \E ok \in BOOLEAN :
         /\ ok => snapshot_present
         /\ vm_running' = IF ok THEN TRUE ELSE vm_running
         /\ restarted_at' = IF ok THEN (IF hb_at # None THEN now ELSE None)
                            ELSE restarted_at
         /\ job' = [job EXCEPT ![w] = IF w = "mon"
                                      THEN (IF ok THEN "returned" ELSE "raised")
                                      ELSE "idle"]
    /\ UNCHANGED <<now, auto_revert_enabled, monitor, task, wake, snapshot_present,
                   history>>

\* ---- the callback after its awaits ---------------------------------------

\* restart_vm returned: the callback logs success and sleeps the settle delay
CallbackAfterRestart ==
    /\ UNCHANGED calls
    /\ UNCHANGED <<lifecycle, vmcall, timing>>
    /\ task = "cb_restart"
    /\ job["mon"] = "returned"
    /\ task' = "cb_settle"
    /\ wake' = now + SettleDelay
    /\ job' = [job EXCEPT !["mon"] = "idle"]
    /\ cb_restart_returned' = TRUE
    /\ UNCHANGED <<now, auto_revert_enabled, monitor, vm_running, snapshot_present,
                   hb_at, armed, auto_since_hb, steady, cb_since_hb, fired,
                   enabled_at, observed_off, op_stopped, cb_outcome>>

\* restart_vm raised: the callback logs the failure and returns; the loop sleeps
CallbackRestartRaised ==
    /\ UNCHANGED calls
    /\ UNCHANGED <<lifecycle, vmcall, timing>>
    /\ task = "cb_restart"
    /\ job["mon"] = "raised"
    /\ task' = "sleep"
    /\ wake' = NextWake
    /\ job' = [job EXCEPT !["mon"] = "idle"]
    /\ cb_outcome' = "failure_logged"
    /\ UNCHANGED <<now, auto_revert_enabled, monitor, vm_running, snapshot_present,
                   hb_at, armed, auto_since_hb, steady, cb_since_hb, fired,
                   enabled_at, observed_off, op_stopped, cb_restart_returned>>

\* the attributes class HeartbeatMonitor defines
MonitorAttrs ==
    {"receive_heartbeat", "is_timed_out", "get_time_since_heartbeat", "get_status",
     "start_monitoring", "stop_monitoring", "_monitoring_loop", "set_manual_stop",
     "clear_manual_stop", "reset"}

\* after the settle delay the callback calls heartbeat_monitor.enable(): the
\* class defines no such attribute, the AttributeError lands in the callback's
\* except branch ("Failed to restart VM after timeout") and the loop sleeps
CallbackAfterSettle ==
    /\ UNCHANGED calls
    /\ UNCHANGED <<lifecycle, vmcall, timing>>
    /\ task = "cb_settle"
    /\ now >= wake
    /\ task' = "sleep"
    /\ wake' = NextWake
    /\ cb_outcome' = IF "enable" \in MonitorAttrs THEN "completed" ELSE "failure_logged"
    /\ UNCHANGED <<now, auto_revert_enabled, monitor, job, vm_running,
                   snapshot_present, hb_at, armed, auto_since_hb, steady,
                   cb_since_hb, fired, enabled_at, observed_off, op_stopped,
                   cb_restart_returned>>

\* ---- transport layer (api.py) --------------------------------------------

\* /api/v1/vm/start: start_vm() on an executor thread
ApiStartVm ==
    /\ calls < MaxCalls /\ calls' = calls + 1
    /\ UNCHANGED <<lifecycle, vmcall, timing>>
    /\ job["op"] = "idle"
    /\ job' = [job EXCEPT !["op"] = "start"]
    /\ op_stopped' = FALSE
    /\ steady' = FALSE
    /\ UNCHANGED <<now, auto_revert_enabled, monitor, task, wake, vm_running,
                   snapshot_present, hb_at, armed, auto_since_hb, cb_since_hb,
                   fired, enabled_at, observed_off, cb_outcome,
                   cb_restart_returned>>

\* /api/v1/vm/stop: its first statement, heartbeat_monitor.disable(), raises
\* AttributeError (no such attribute); the handler answers 500 and neither
\* set_manual_stop() nor VMManager.stop_vm() is reached
ApiStopVm ==
    /\ calls < MaxCalls /\ calls' = calls + 1
    /\ "disable" \notin MonitorAttrs
    /\ op_stopped' = TRUE
    /\ stop_response' = "500"
    /\ UNCHANGED <<live_tasks, warned, lifespan_pc, vmcall, timing>>
    /\ UNCHANGED <<now, auto_revert_enabled, monitor, task, wake, job, vm_running,
                   snapshot_present, hb_at, armed, auto_since_hb, steady,
                   cb_since_hb, fired, enabled_at, observed_off, cb_outcome,
                   cb_restart_returned>>

\* ---- the backend's own moves ---------------------------------------------

\* the guest crashes or is shut down
VmCrash ==
    /\ calls < MaxCalls /\ calls' = calls + 1
    /\ UNCHANGED <<lifecycle, vmcall, timing>>
    /\ vm_running
    /\ vm_running' = FALSE
    /\ steady' = FALSE
    /\ UNCHANGED <<now, auto_revert_enabled, monitor, task, wake, job,
                   snapshot_present, hb_at, armed, auto_since_hb, cb_since_hb,
                   fired, enabled_at, observed_off, op_stopped, cb_outcome,
                   cb_restart_returned>>

\* the reference snapshot is created or deleted (create_snapshot / delete_snapshot)
SetSnapshot ==
    /\ calls < MaxCalls /\ calls' = calls + 1
    /\ UNCHANGED <<lifecycle, vmcall, timing>>
    /\ snapshot_present' = ~snapshot_present
    /\ UNCHANGED <<now, auto_revert_enabled, monitor, task, wake, job, vm_running,
                   history>>

\* the application calls start_monitoring() once, at startup (api.py,
\* lifespan), which is where the clock of the model starts
Next ==
    \/ Advance
    \/ task = "none" /\ now = 0 /\ StartMonitoring
    \/ ReceiveHeartbeat
    \/ EnableAutoRevert
    \/ DisableAutoRevert
    \/ SetManualStop
    \/ ClearManualStop
    \/ Tick
    \/ \E w \in Workers : StartVmBegin(w)
    \/ \E w \in Workers : Revert(w)
    \/ CallbackAfterRestart
    \/ CallbackRestartRaised
    \/ CallbackAfterSettle
    \/ ApiStartVm
    \/ ApiStopVm
    \/ VmCrash
    \/ SetSnapshot

Spec == Init /\ [][Next]_vars

\* ---- the callback called on its own ---------------------------------------
\* on_heartbeat_timeout is a plain closure: here a caller other than a tick's
\* checks invokes and awaits it between two ticks, in any state, so that its
\* own gate decides.  No tick runs until it completes.
DirectCallback ==
    /\ calls < MaxCalls /\ calls' = calls + 1
    /\ UNCHANGED <<lifecycle, vmcall, timing>>
    /\ task = "sleep"
    /\ job["mon"] = "idle"
    /\ CallbackBegin
    /\ UNCHANGED <<now, auto_revert_enabled, monitor, wake, vm_running,
                   snapshot_present, hb_at, armed, auto_since_hb, steady,
                   cb_since_hb, fired, enabled_at, observed_off, op_stopped>>

NextCb == Next \/ DirectCallback

SpecCb == Init /\ [][NextCb]_vars

\* ---- the monitor started and stopped by its owner --------------------------
\* The application calls start_monitoring() once at startup and
\* stop_monitoring() once at shutdown.  Here the owner calls both at any
\* time, in any order, while heartbeats arrive, the loop and its callback
\* run and the backend changes.
NextLife ==
    \/ StartMonitoring
    \/ StopMonitoring
    \/ Advance
    \/ ReceiveHeartbeat
    \/ Tick
    \/ \E w \in Workers : StartVmBegin(w)
    \/ \E w \in Workers : Revert(w)
    \/ CallbackAfterRestart
    \/ CallbackRestartRaised
    \/ CallbackAfterSettle
    \/ VmCrash
    \/ SetSnapshot

SpecLife == Init /\ [][NextLife]_vars

\* ---- the monitor with a callback of its owner's choosing ------------------
\* HeartbeatMonitor takes any callable as on_timeout_callback.  Here the
\* callback returns, raises an Exception, or returns a coroutine that the
\* loop awaits and that later returns or raises.

\* the loop calls the callback (lines 213 and 232)
AnyCallbackBegin ==
    /\ UNCHANGED <<job, cb_restart_returned>>
    /\ \E how \in {"returned", "raised", "suspended"} :
         /\ cb_outcome' = IF how = "suspended" THEN "none" ELSE how
         /\ task' = CASE how = "suspended" -> AwaitResult("cb_foreign")
                      [] how = "raised" -> AfterCallbackFailure
                      [] OTHER -> "sleep"

TickAnyCallback == LoopIteration(AnyCallbackBegin)

\* the awaited coroutine ends (lines 215 and 234); the loop goes to its sleep
AnyCallbackEnds ==
    /\ UNCHANGED calls
    /\ UNCHANGED <<lifecycle, vmcall, timing>>
    /\ task = "cb_foreign"
    /\ \E how \in {"awaited_returned", "awaited_raised"} :
         /\ cb_outcome' = how
         /\ task' = IF how = "awaited_raised" THEN AfterCallbackFailure ELSE "sleep"
    /\ wake' = NextWake
    /\ UNCHANGED <<now, auto_revert_enabled, monitor, job, vm_running,
                   snapshot_present, hb_at, armed, auto_since_hb, steady,
                   cb_since_hb, fired, enabled_at, observed_off, op_stopped,
                   cb_restart_returned>>

\* the backend brings the VM up again (the owner's callback or an operator)
VmComesUp ==
    /\ calls < MaxCalls /\ calls' = calls + 1
    /\ UNCHANGED <<lifecycle, vmcall, timing>>
    /\ ~vm_running
    /\ vm_running' = TRUE
    /\ UNCHANGED <<now, auto_revert_enabled, monitor, task, wake, job,
                   snapshot_present, history>>

NextAnyCb ==
    \/ Advance
    \/ task = "none" /\ now = 0 /\ StartMonitoring
    \/ ReceiveHeartbeat
    \/ SetManualStop
    \/ TickAnyCallback
    \/ AnyCallbackEnds
    \/ VmCrash
    \/ VmComesUp

SpecAnyCb == Init /\ [][NextAnyCb]_vars

\* ---- the service from startup to exit (api.py, lifespan) ------------------

\* startup up to its first await: VMManager and HeartbeatMonitor are
\* constructed and restart_vm is handed to an executor thread
LifespanRestartBegin ==
    /\ UNCHANGED calls
    /\ UNCHANGED <<vmcall, timing>>
    /\ lifespan_pc = "startup"
    /\ job["mon"] = "idle"
    /\ job' = [job EXCEPT !["mon"] = "start"]
    /\ lifespan_pc' = "restart"
    /\ UNCHANGED <<now, auto_revert_enabled, monitor, task, wake, vm_running,
                   snapshot_present, history, live_tasks, warned, stop_response>>

\* restart_vm has ended.  If it raised, startup logs and re-raises.  If not,
\* startup awaits start_monitoring() and then calls heartbeat_monitor.enable():
\* without that attribute the AttributeError leaves lifespan before its yield
LifespanAfterRestart ==
    /\ UNCHANGED calls
    /\ UNCHANGED <<vmcall, timing>>
    /\ lifespan_pc = "restart"
    /\ task = "none"
    /\ job["mon"] \in {"returned", "raised"}
    /\ job' = [job EXCEPT !["mon"] = "idle"]
    /\ IF job["mon"] = "raised"
       THEN /\ lifespan_pc' = "restart_failed"
            /\ UNCHANGED <<task, wake, live_tasks>>
       ELSE /\ task' = "sleep"
            /\ wake' = now
            /\ live_tasks' = live_tasks + 1
            /\ lifespan_pc' = IF "enable" \in MonitorAttrs THEN "serving"
                              ELSE "enable_failed"
    /\ UNCHANGED <<now, auto_revert_enabled, monitor, vm_running, snapshot_present,
                   history, warned, stop_response>>

\* the server stops.  From the serving state lifespan resumes after its
\* yield and awaits stop_monitoring(); after a failed startup the process
\* exits with lifespan never resumed
LifespanExit ==
    /\ UNCHANGED calls
    /\ UNCHANGED <<vmcall, timing>>
    /\ lifespan_pc \in {"serving", "restart_failed", "enable_failed"}
    /\ job["mon"] \in {"start", "revert"} => job["orphan"] = "idle"
    /\ IF lifespan_pc = "serving"
       THEN /\ lifespan_pc' = "stopped"
            /\ task' = "none"
            /\ live_tasks' = IF task = "none" THEN live_tasks ELSE live_tasks - 1
            /\ job' = [job EXCEPT !["mon"] = "idle",
                                  !["orphan"] = IF job["mon"] \in {"start", "revert"}
                                                THEN job["mon"] ELSE job["orphan"]]
            /\ cb_outcome' = IF task \in {"cb_restart", "cb_settle"} THEN "cancelled"
                              ELSE cb_outcome
       ELSE /\ lifespan_pc' = "exited"
            /\ UNCHANGED <<task, live_tasks, job, cb_outcome>>
    /\ UNCHANGED <<now, auto_revert_enabled, monitor, wake, vm_running,
                   snapshot_present, hb_at, armed, auto_since_hb, steady,
                   cb_since_hb, fired, enabled_at, observed_off, op_stopped,
                   cb_restart_returned, warned, stop_response>>

\* until the process has exited its event loop and threads run on
NextBoot ==
    \/ LifespanRestartBegin
    \/ LifespanAfterRestart
    \/ LifespanExit
    \/ lifespan_pc # "exited" /\ Advance
    \/ lifespan_pc # "exited" /\ ReceiveHeartbeat
    \/ lifespan_pc # "exited" /\ Tick
    \/ lifespan_pc # "exited" /\ \E w \in Workers : StartVmBegin(w)
    \/ lifespan_pc # "exited" /\ \E w \in Workers : Revert(w)
    \/ lifespan_pc # "exited" /\ CallbackAfterRestart
    \/ lifespan_pc # "exited" /\ CallbackRestartRaised
    \/ lifespan_pc # "exited" /\ CallbackAfterSettle
    \/ lifespan_pc # "exited" /\ VmCrash
    \/ lifespan_pc # "exited" /\ SetSnapshot

SpecBoot == Init /\ [][NextBoot]_vars

\* ---- is_timed_out() beside reset() on another thread ---------------------
\* reset() runs on the executor thread of start_vm, is_timed_out() on the
\* event loop's thread, with no lock: the thread switch can fall between
\* is_timed_out()'s test "self.last_heartbeat is None" and its subtraction
\* "time.time() - self.last_heartbeat".  Here the iteration of the loop that
\* reaches the timeout check is followed in two steps around that point.

\* an iteration with auto-revert on, manual stop unset and the VM running,
\* up to is_timed_out()'s test of last_heartbeat, which the stamped timer
\* passes
TickToTimeoutCheck ==
    /\ UNCHANGED calls
    /\ UNCHANGED <<lifecycle, vmcall, timing>>
    /\ task = "sleep"
    /\ now >= wake
    /\ auto_revert_enabled /\ ~manual_stop /\ IsRunning
    /\ was_monitoring' = TRUE
    /\ last_heartbeat' = RearmedHeartbeat
    /\ armed' = (Stamps \/ armed)
    /\ task' = "is_timed_out"
    /\ UNCHANGED <<now, auto_revert_enabled, actual_heartbeat_received, manual_stop,
                   wake, job, vm_running, snapshot_present, hb_at, auto_since_hb,
                   steady, cb_since_hb, fired, enabled_at, observed_off, op_stopped,
                   cb_outcome, cb_restart_returned>>

\* the subtraction and the rest of the iteration.  With last_heartbeat None
\* the subtraction raises TypeError; the call at line 226 is inside no
\* try but the loop's outermost, whose "except Exception" logs and re-raises:
\* the task ends
TimeoutCheckSubtract ==
    /\ UNCHANGED calls
    /\ UNCHANGED <<vmcall, restarted_at, off_period, warned, stop_response,
                   lifespan_pc>>
    /\ task = "is_timed_out"
    /\ IF last_heartbeat = None
       THEN /\ task' = "none"
            /\ live_tasks' = live_tasks - 1
            /\ UNCHANGED <<wake, fired, cb_since_hb, cb_at, job, cb_outcome,
                           cb_restart_returned>>
       ELSE /\ UNCHANGED live_tasks
            /\ wake' = NextWake
            /\ fired' = IF TimedOut(auto_revert_enabled, last_heartbeat, now)
                        THEN "timeout" ELSE "none"
            /\ IF TimedOut(auto_revert_enabled, last_heartbeat, now)
               THEN /\ cb_since_hb' = IF cb_since_hb < CbCap THEN cb_since_hb + 1
                                     ELSE cb_since_hb
                    /\ cb_at' = now
                    /\ CallbackBegin
               ELSE /\ task' = "sleep"
                    /\ UNCHANGED <<cb_since_hb, cb_at, job, cb_outcome,
                                   cb_restart_returned>>
    /\ UNCHANGED <<now, auto_revert_enabled, monitor, vm_running, snapshot_present,
                   hb_at, armed, auto_since_hb, steady, enabled_at, observed_off,
                   op_stopped>>

\* handlers and the clock wait while the event loop's thread is inside
\* is_timed_out(); executor threads do not
NextRace ==
    \/ task # "is_timed_out" /\ Advance
    \/ task = "none" /\ now = 0 /\ StartMonitoring
    \/ task # "is_timed_out" /\ ReceiveHeartbeat
    \/ task # "is_timed_out" /\ ApiStartVm
    \/ Tick
    \/ TickToTimeoutCheck
    \/ TimeoutCheckSubtract
    \/ \E w \in Workers : StartVmBegin(w)
    \/ \E w \in Workers : Revert(w)
    \/ CallbackAfterRestart
    \/ CallbackRestartRaised
    \/ CallbackAfterSettle

SpecRace == Init /\ [][NextRace]_vars

\* ---- the loop left to itself, under a fair scheduler ----------------------
\* No heartbeat arrives and no request is made: the loop, its callback and
\* the callback's restart_vm run on.  The event loop runs every task that is
\* ready, the executor runs every thread, and time passes.
NextFair ==
    \/ Advance
    \/ task = "none" /\ now = 0 /\ StartMonitoring
    \/ Tick
    \/ \E w \in Workers : StartVmBegin(w)
    \/ \E w \in Workers : Revert(w)
    \/ CallbackAfterRestart
    \/ CallbackRestartRaised
    \/ CallbackAfterSettle

SpecFair ==
    /\ Init /\ [][NextFair]_vars
    /\ WF_vars(Advance)
    /\ WF_vars(Tick)
    /\ WF_vars(\E w \in Workers : StartVmBegin(w))
    /\ WF_vars(\E w \in Workers : Revert(w))
    /\ WF_vars(CallbackAfterRestart)
    /\ WF_vars(CallbackRestartRaised)
    /\ WF_vars(CallbackAfterSettle)

\* ---- VMManager, one method call at a time ---------------------------------
\* Each method is followed statement by statement against the backend (virsh):
\* every command either does its work or fails, and vm_log keeps what the
\* call did, in order, as <<what, outcome>>.

\* self.snapshot_name and one other snapshot name
Names == {"ready", "extra"}

\* virsh snapshot-list shows the name
Present(n) == IF n = "ready" THEN snapshot_present ELSE extra_present

\* what on_reset_callback can be: unset, HeartbeatMonitor.reset() (as the
\* application wires it), or a callable that raises
ResetCallbacks == {"none", "reset", "raises"}

VmCalls ==
    {Call("start_vm", "ready", FALSE, 0, cb) : cb \in ResetCallbacks}
        \cup {Call("restart_vm", "ready", w, DefaultMaxAttempts, cb) :
                 w \in BOOLEAN, cb \in ResetCallbacks}
        \cup {Call("stop_vm", "ready", FALSE, 0, "none")}
        \cup {Call("is_running", "ready", FALSE, 0, "none")}
        \cup {Call(op, n, FALSE, 0, "none") :
                 op \in {"create_snapshot", "delete_snapshot"}, n \in Names}
        \cup {Call("wait_for_vm_ready", "ready", FALSE, m, "none") :
                 m \in 1..MaxAttempts}

\* the first statement of each method
FirstPc(op) ==
    CASE op \in {"start_vm", "restart_vm"} -> "snapshot_exists"
      [] op = "stop_vm" -> "destroy"
      [] op = "is_running" -> "domstate"
      [] op = "create_snapshot" -> "delete_existing"
      [] op = "delete_snapshot" -> "delete"
      [] op = "wait_for_vm_ready" -> "probe"

\* the state no VMManager method reads or writes
vmframe == <<now, calls, auto_revert_enabled, was_monitoring, task, wake, job,
             auto_since_hb, steady, cb_since_hb, fired, enabled_at, observed_off,
             op_stopped, cb_outcome, cb_restart_returned, lifecycle, timing>>

\* a caller invokes a method
VmCallBegin ==
    /\ vm_pc = "idle"
    /\ \E c \in VmCalls :
         /\ vm_call' = c
         /\ vm_pc' = FirstPc(c.op)
         /\ attempt' = IF c.op = "wait_for_vm_ready" THEN 1 ELSE 0
    /\ vm_log' = <<>>
    /\ vm_result' = "none"
    /\ vm_prev' = <<vm_call.op, vm_call.name, vm_result>>
    /\ UNCHANGED <<vmframe, monitor, hb_at, armed, vm_running, snapshot_present,
                   extra_present>>

\* snapshot_exists() on what list_snapshots() gave: "listed", "not_listed",
\* or "error" when the query raised
SnapshotExists_TrueOnError(listing) == listing # "not_listed"
SnapshotExists(listing) == listing = "listed"

\* start_vm(): the snapshot check; RuntimeError when it says no
StartVmCheck ==
    /\ vm_pc = "snapshot_exists"
    /\ \E listing \in {IF snapshot_present THEN "listed" ELSE "not_listed", "error"} :
         /\ vm_log' = Append(vm_log, <<"list", listing>>)
         /\ IF SnapshotExists(listing)
            THEN /\ vm_pc' = IF vm_call.reset_cb = "none" THEN "revert" ELSE "reset"
                 /\ UNCHANGED vm_result
            ELSE /\ vm_pc' = "idle"
                 /\ vm_result' = "RuntimeError"
    /\ UNCHANGED <<vmframe, monitor, hb_at, armed, vm_running, snapshot_present,
                   extra_present, vm_call, attempt, vm_prev>>

\* "except Exception" around the reset callback catches what it raises
ResetFailureCaught_Not == FALSE
ResetFailureCaught == TRUE

\* start_vm(): the reset callback
StartVmReset ==
    /\ vm_pc = "reset"
    /\ IF vm_call.reset_cb = "reset"
       THEN /\ last_heartbeat' = ResetValues[1]
            /\ actual_heartbeat_received' = ResetValues[2]
            /\ manual_stop' = ResetValues[3]
            /\ hb_at' = None
            /\ armed' = FALSE
            /\ vm_log' = Append(vm_log, <<"reset", "done">>)
            /\ vm_pc' = "revert"
            /\ UNCHANGED vm_result
       ELSE /\ vm_log' = Append(vm_log, <<"reset", "raised">>)
            /\ IF ResetFailureCaught
               THEN vm_pc' = "revert" /\ UNCHANGED vm_result
               ELSE vm_pc' = "idle" /\ vm_result' = "CallbackError"
            /\ UNCHANGED <<last_heartbeat, actual_heartbeat_received, manual_stop,
                           hb_at, armed>>
    /\ UNCHANGED <<vmframe, was_monitoring, vm_running, snapshot_present,
                   extra_present, vm_call, attempt, vm_prev>>

\* restart_vm(): "if wait_for_ready" after start_vm() returned
RestartWaits_Never(wait) == FALSE
RestartWaits(wait) == wait

\* start_vm(): virsh snapshot-revert, which also starts the VM; restart_vm()
\* goes on to wait_for_vm_ready() with its defaults, or returns True
StartVmRevert ==
    /\ vm_pc = "revert"
    /\ \E ok \in BOOLEAN :
         /\ ok => snapshot_present
         /\ vm_log' = Append(vm_log, <<"revert", IF ok THEN "ok" ELSE "error">>)
         /\ vm_running' = IF ok THEN TRUE ELSE vm_running
         /\ IF ~ok
            THEN vm_pc' = "idle" /\ vm_result' = "CalledProcessError"
                 /\ UNCHANGED attempt
            ELSE IF vm_call.op = "start_vm"
            THEN vm_pc' = "idle" /\ vm_result' = "returned" /\ UNCHANGED attempt
            ELSE IF RestartWaits(vm_call.wait)
            THEN vm_pc' = "probe" /\ attempt' = 1 /\ UNCHANGED vm_result
            ELSE vm_pc' = "idle" /\ vm_result' = "true" /\ UNCHANGED attempt
    /\ UNCHANGED <<vmframe, monitor, hb_at, armed, snapshot_present, extra_present,
                   vm_call, vm_prev>>

\* wait_for_vm_ready(): "if attempt < max_attempts" before time.sleep
SleepsAgain_AfterLast(a, max) == a <= max
SleepsAgain(a, max) == a < max

\* wait_for_vm_ready(): the end of one pass of "for attempt in range(1, max + 1)"
NextAttempt ==
    IF attempt < vm_call.max_attempts
    THEN vm_pc' = "probe" /\ attempt' = attempt + 1 /\ UNCHANGED vm_result
    ELSE vm_pc' = "idle" /\ vm_result' = "false" /\ UNCHANGED attempt

\* wait_for_vm_ready(): check_vm_responsiveness(), True only from a running guest
WaitProbe ==
    /\ vm_pc = "probe"
    /\ \E responsive \in BOOLEAN :
         /\ responsive => vm_running
         /\ vm_log' = Append(vm_log, <<"probe", IF responsive THEN "ok" ELSE "fail">>)
         /\ IF responsive
            THEN vm_pc' = "idle" /\ vm_result' = "true" /\ UNCHANGED attempt
            ELSE IF SleepsAgain(attempt, vm_call.max_attempts)
            THEN vm_pc' = "sleep" /\ UNCHANGED <<attempt, vm_result>>
            ELSE NextAttempt
    /\ UNCHANGED <<vmframe, monitor, hb_at, armed, vm_running, snapshot_present,
                   extra_present, vm_call, vm_prev>>

\* wait_for_vm_ready(): time.sleep(check_interval)
WaitSleep ==
    /\ vm_pc = "sleep"
    /\ vm_log' = Append(vm_log, <<"sleep", "interval">>)
    /\ NextAttempt
    /\ UNCHANGED <<vmframe, monitor, hb_at, armed, vm_running, snapshot_present,
                   extra_present, vm_call, vm_prev>>

\* stop_vm(): the CalledProcessError it does not re-raise
StopVmSwallows_Nothing(outcome) == FALSE
StopVmSwallows(outcome) == outcome = "not_running"

\* stop_vm(): virsh destroy; of a VM that is not running the backend says
\* "domain is not running"
StopVmDestroy ==
    /\ vm_pc = "destroy"
    /\ \E outcome \in {IF vm_running THEN "ok" ELSE "not_running", "error"} :
         /\ vm_log' = Append(vm_log, <<"destroy", outcome>>)
         /\ vm_running' = IF outcome = "ok" THEN FALSE ELSE vm_running
         /\ vm_result' = IF outcome = "ok" \/ StopVmSwallows(outcome)
                         THEN "returned" ELSE "CalledProcessError"
    /\ vm_pc' = "idle"
    /\ UNCHANGED <<vmframe, monitor, hb_at, armed, snapshot_present, extra_present,
                   vm_call, attempt, vm_prev>>

\* the backend's snapshot list after a command on snapshot n
SetPresent(n, v) ==
    /\ snapshot_present' = IF n = "ready" THEN v ELSE snapshot_present
    /\ extra_present' = IF n = "extra" THEN v ELSE extra_present

\* virsh snapshot-delete of n: deletes it, or says "No snapshot with name",
\* or fails otherwise
DeleteOutcomes(n) == {IF Present(n) THEN "ok" ELSE "no_snapshot", "error"}

\* create_snapshot(): a failed delete of the old snapshot is passed over
\* (logged as a warning unless it is "No snapshot with name")
DeleteFailureIgnored_Never(outcome) == FALSE
DeleteFailureIgnored(outcome) == outcome \in {"no_snapshot", "error"}

\* create_snapshot(): delete the snapshot of that name first
CreateDeleteExisting ==
    /\ vm_pc = "delete_existing"
    /\ \E outcome \in DeleteOutcomes(vm_call.name) :
         /\ vm_log' = Append(vm_log, <<"delete", outcome>>)
         /\ SetPresent(vm_call.name, IF outcome = "ok" THEN FALSE
                                     ELSE Present(vm_call.name))
         /\ IF outcome = "ok" \/ DeleteFailureIgnored(outcome)
            THEN vm_pc' = "create" /\ UNCHANGED vm_result
            ELSE vm_pc' = "idle" /\ vm_result' = "CalledProcessError"
    /\ UNCHANGED <<vmframe, monitor, hb_at, armed, vm_running, vm_call, attempt,
                   vm_prev>>

\* create_snapshot(): virsh snapshot-create-as, which refuses a name in use
CreateSnapshot ==
    /\ vm_pc = "create"
    /\ \E outcome \in (IF Present(vm_call.name) THEN {"error"} ELSE {"ok", "error"}) :
         /\ vm_log' = Append(vm_log, <<"create", outcome>>)
         /\ SetPresent(vm_call.name, IF outcome = "ok" THEN TRUE
                                     ELSE Present(vm_call.name))
         /\ vm_result' = IF outcome = "ok" THEN "returned" ELSE "CalledProcessError"
    /\ vm_pc' = "idle"
    /\ UNCHANGED <<vmframe, monitor, hb_at, armed, vm_running, vm_call, attempt,
                   vm_prev>>

\* delete_snapshot(): virsh snapshot-delete with check=True, nothing caught
DeleteSnapshot ==
    /\ vm_pc = "delete"
    /\ \E outcome \in DeleteOutcomes(vm_call.name) :
         /\ vm_log' = Append(vm_log, <<"delete", outcome>>)
         /\ SetPresent(vm_call.name, IF outcome = "ok" THEN FALSE
                                     ELSE Present(vm_call.name))
         /\ vm_result' = IF outcome = "ok" THEN "returned" ELSE "CalledProcessError"
    /\ vm_pc' = "idle"
    /\ UNCHANGED <<vmframe, monitor, hb_at, armed, vm_running, vm_call, attempt,
                   vm_prev>>

\* what virsh domstate can give: a state of the domain, a failed command
\* (CalledProcessError), or no command run at all because subprocess.run
\* itself raises (FileNotFoundError or another OSError)
DomstateOutcomes ==
    {IF vm_running THEN "running" ELSE "shut off", "CalledProcessError", "OSError"}
        \cup (IF vm_running THEN {} ELSE {"paused"})

\* is_running() on the outcome of get_vm_state(): only CalledProcessError
\* is caught
IsRunningResult(outcome) ==
    CASE outcome = "running" -> "true"
      [] outcome = "CalledProcessError" -> "false"
      [] outcome = "OSError" -> "OSError"
      [] OTHER -> "false"

\* is_running(): get_vm_state() and the comparison with "running"
IsRunningQuery ==
    /\ vm_pc = "domstate"
    /\ \E outcome \in DomstateOutcomes :
         /\ vm_log' = Append(vm_log, <<"domstate", outcome>>)
         /\ vm_result' = IsRunningResult(outcome)
    /\ vm_pc' = "idle"
    /\ UNCHANGED <<vmframe, monitor, hb_at, armed, vm_running, snapshot_present,
                   extra_present, vm_call, attempt, vm_prev>>

\* the methods are called one after the other, with heartbeats and manual
\* stops arriving between the calls
NextVm ==
    \/ VmCallBegin
    \/ StartVmCheck
    \/ StartVmReset
    \/ StartVmRevert
    \/ WaitProbe
    \/ WaitSleep
    \/ StopVmDestroy
    \/ CreateDeleteExisting
    \/ CreateSnapshot
    \/ DeleteSnapshot
    \/ IsRunningQuery
    \/ vm_pc = "idle" /\ ReceiveHeartbeat
    \/ vm_pc = "idle" /\ SetManualStop

SpecVm == Init /\ [][NextVm]_vars

\* ==== properties ============================================================

\* C1: in every reachable state in which auto-revert is disabled,
\* is_timed_out() is false, whatever heartbeats, ticks and time went before.
C1_DisabledNeverTimedOut == ~auto_revert_enabled => ~IsTimedOut

\* reached: disabled, a heartbeat on record that is older than the timeout
C1_Witness ==
    /\ ~auto_revert_enabled
    /\ actual_heartbeat_received
    /\ now - last_heartbeat > Timeout

\* C2 as stated: with auto-revert enabled and no heartbeat received since
\* construction or the last reset(), is_timed_out() is false.
C2_Stated_NoHeartbeatNeverTimedOut ==
    (auto_revert_enabled /\ ~actual_heartbeat_received) => ~IsTimedOut

\* C2, amended: with auto-revert enabled and no heartbeat received,
\* is_timed_out() is true only once the loop has armed the timer itself (and
\* then, as is_timed_out() computes, more than the timeout after that stamp).
C2_NoHeartbeatTimedOutOnlyAfterLoopArmed ==
    (auto_revert_enabled /\ ~actual_heartbeat_received /\ IsTimedOut)
        => (armed /\ last_heartbeat # None /\ now - last_heartbeat > Timeout)

\* reached: no heartbeat ever since reset, the loop's stamp exactly one
\* timeout old, not timed out
C2_Witness ==
    /\ auto_revert_enabled
    /\ ~actual_heartbeat_received
    /\ armed
    /\ now - last_heartbeat = Timeout
    /\ ~IsTimedOut

\* C3 as stated: with auto-revert enabled ever since a heartbeat at T0 and no
\* heartbeat or reset() after it, is_timed_out() is true exactly when more
\* than the timeout has passed since T0.  (Stated for a heartbeat that
\* reaches a running loop with the VM up and no operator action after it.)
C3_Stated_TimedOutExactlyAfterTimeout ==
    (actual_heartbeat_received /\ auto_since_hb /\ steady)
        => (IsTimedOut <=> now - hb_at > Timeout)

\* C3, amended: the same, as long as the loop has not re-armed the timer
\* since T0.
C3_TimedOutExactlyAfterTimeoutUnlessRearmed ==
    (actual_heartbeat_received /\ auto_since_hb /\ ~armed)
        => (IsTimedOut <=> now - hb_at > Timeout)

\* reached: the heartbeat at T0 has timed out
C3_Witness ==
    /\ actual_heartbeat_received
    /\ auto_since_hb
    /\ ~armed
    /\ now - hb_at > Timeout
    /\ IsTimedOut

\* C4: a tick that finds the manual-stop flag set invokes no callback, VM down
\* or timed out; a tick that finds it unset, with auto-revert enabled and
\* is_timed_out() true for a loop that is already monitoring, invokes it.
C4_ManualStopSuppressesRecovery ==
    [][Tick =>
        /\ manual_stop => (fired' = "none" /\ task' = "sleep")
        /\ (~manual_stop /\ auto_revert_enabled /\ was_monitoring /\ IsTimedOut)
              => (fired' # "none" /\ task' = "cb_restart")]_vars

\* reached: a tick has just run with manual stop set while timed out, and
\* went back to sleep
C4_Witness ==
    /\ manual_stop
    /\ auto_revert_enabled
    /\ was_monitoring
    /\ IsTimedOut
    /\ fired = "none"
    /\ task = "sleep"
    /\ wake = now + CheckInterval

\* C5 as stated: after auto-revert is re-enabled, no tick invokes the callback
\* for a heartbeat timeout before the timeout has elapsed since the re-enable.
C5_Stated_NoTimeoutRecoveryEarlyAfterEnable ==
    [][(Tick /\ fired' = "timeout" /\ enabled_at # None)
          => now - enabled_at >= Timeout]_vars

\* C5, amended: the same when the loop had seen the flag off at a tick before
\* the re-enable.
C5_NoTimeoutRecoveryEarlyAfterObservedDisable ==
    [][(Tick /\ fired' = "timeout" /\ enabled_at # None /\ observed_off)
          => now - enabled_at > Timeout]_vars

\* reached: a timeout recovery after a disabled period the loop had seen
C5_Witness ==
    /\ fired = "timeout"
    /\ task = "cb_restart"
    /\ enabled_at # None
    /\ observed_off

\* C6 as stated: under its conditions (held since the heartbeat at T0) the
\* callback has been invoked once the clock is past T0 + timeout + check_interval.
C6_Stated_RecoveryByDeadline ==
    (steady /\ actual_heartbeat_received /\ now > hb_at + Timeout + CheckInterval)
        => cb_since_hb >= 1

\* C6, amended: when the loop has not re-armed the timer since T0, the callback
\* is invoked at the first tick after T0 + timeout, which is no later than
\* T0 + timeout + check_interval; and no tick invokes it for a timeout before
\* T0 + timeout.
C6_RecoveryAtFirstTickAfterTimeout ==
    [][/\ ((steady /\ actual_heartbeat_received /\ ~armed
              /\ now > hb_at + Timeout + CheckInterval) => cb_since_hb >= 1)'
       /\ (Tick /\ actual_heartbeat_received /\ fired' = "timeout")
              => now - hb_at > Timeout
       /\ (Tick /\ steady /\ actual_heartbeat_received /\ ~armed
              /\ now - hb_at > Timeout) => fired' = "timeout"]_vars

\* reached: the callback invoked for the heartbeat at T0, at the deadline
C6_Witness ==
    /\ steady
    /\ actual_heartbeat_received
    /\ ~armed
    /\ fired = "timeout"
    /\ task = "cb_restart"
    /\ cb_since_hb = 1
    /\ now = hb_at + Timeout + CheckInterval

C8_NoRecoveryWhileOperatorStopped ==
    [][(Tick /\ op_stopped) => fired' = "none"]_vars

\* C9: a callback whose restart_vm returned without raising completes without
\* logging a restart failure.
C9_GoodRestartCompletesWithoutFailure ==
    (cb_restart_returned /\ cb_outcome \notin {"none", "cancelled"})
        => cb_outcome = "completed"

\* C10: the callback hands restart_vm to the executor only when the auto-revert
\* flag is true as it runs; with the flag false it changes nothing of the
\* monitor, the controller, the task or the executor.
C10_CallbackActsOnlyWhenEnabled ==
    [][/\ (job'["mon"] = "start" /\ job["mon"] # "start") => auto_revert_enabled
       /\ (DirectCallback /\ ~auto_revert_enabled) => UNCHANGED <<now, program>>]_vars

\* reached: the callback ran with the flag false
C10_Witness ==
    /\ ~auto_revert_enabled
    /\ cb_outcome = "skipped"
    /\ job["mon"] = "idle"

\* C11: once stop_monitoring() has returned and while no new loop task exists,
\* no restart activity started by the monitor goes on: the thread that ran
\* the cancelled callback's restart_vm takes no further step.
C11_NoRestartActivityAfterStop ==
    [][(task = "none" /\ task' = "none") => job'["orphan"] = job["orphan"]]_vars

\* C12: at most one loop task is alive at any time, and start_monitoring()
\* called with a task running creates no task and changes nothing of the
\* monitor, the controller, the task or the executor.
C12_AtMostOneLoopTask ==
    [][/\ live_tasks' <= 1
       /\ (StartMonitoring /\ task # "none") => UNCHANGED <<program, live_tasks>>]_vars

\* reached: start_monitoring() was called with the task running and returned
\* with its warning; one task is alive
C12_Witness ==
    /\ warned
    /\ live_tasks = 1
    /\ task # "none"

\* C16: every operator stop request is answered with success.
C16_OperatorStopSucceeds ==
    [][ApiStopVm => stop_response' = "200"]_vars

\* positions in vm_log of the entries of one kind
Did(what) == {i \in DOMAIN vm_log : vm_log[i][1] = what}

\* the call in vm_call has ended
Finished == vm_pc = "idle" /\ vm_result # "none"

\* C13: when the snapshot check of start_vm() does not find the reference
\* snapshot (not listed, or the list query failed), start_vm() raises
\* RuntimeError there and then: no reset callback, no revert, monitor and VM
\* untouched.  A snapshot that is not present is never found.
C13_MissingSnapshotIsPreconditionFailure ==
    [][StartVmCheck =>
        /\ ~snapshot_present => vm_log'[1][2] # "listed"
        /\ vm_log'[1][2] # "listed" =>
              /\ vm_result' = "RuntimeError"
              /\ vm_pc' = "idle"
              /\ Len(vm_log') = 1
              /\ UNCHANGED <<monitor, vm_running>>]_vars

\* reached: start_vm() ended in RuntimeError on a failed list query, with the
\* snapshot there, a heartbeat on record and reset() as the callback
C13_Witness ==
    /\ vm_call.op = "start_vm"
    /\ vm_call.reset_cb = "reset"
    /\ vm_result = "RuntimeError"
    /\ vm_log = <<(<<"list", "error">>)>>
    /\ snapshot_present
    /\ actual_heartbeat_received

\* C14: the reset callback runs before the revert, whatever it raises is not
\* propagated (the revert follows), and start_vm() ends as the revert ends.
C14_ResetBeforeRevertAndFailureContained ==
    [][/\ StartVmReset => (vm_pc' = "revert" /\ vm_result' = "none")
       /\ (StartVmRevert /\ vm_call.reset_cb # "none")
             => vm_log[Len(vm_log)][1] = "reset"
       /\ (StartVmRevert /\ vm_call.op = "start_vm")
             => vm_result' = (IF vm_log'[Len(vm_log')][2] = "ok"
                              THEN "returned" ELSE "CalledProcessError")]_vars

\* reached: start_vm() returned normally after its reset callback raised
C14_Witness ==
    /\ vm_call.op = "start_vm"
    /\ vm_result = "returned"
    /\ vm_log = <<(<<"list", "listed">>), (<<"reset", "raised">>), (<<"revert", "ok">>)>>

\* C15: stop_vm() returns normally when virsh destroy succeeds and when the
\* backend says the VM is not running; any other backend error is raised.
C15_StopVmToleratesNotRunning ==
    [][StopVmDestroy =>
        /\ vm_pc' = "idle"
        /\ vm_log'[1][2] \in {"ok", "not_running"} => vm_result' = "returned"
        /\ vm_log'[1][2] = "error" => vm_result' = "CalledProcessError"]_vars

\* reached: stop_vm() of a stopped VM returned normally
C15_Witness ==
    /\ vm_call.op = "stop_vm"
    /\ vm_result = "returned"
    /\ vm_log = <<(<<"destroy", "not_running">>)>>
    /\ ~vm_running

\* C17: a create_snapshot(name) in which no backend command failed abnormally
\* returns normally and leaves the name listed, whether or not the name was
\* listed before (so also right after a create_snapshot of the same name).
C17_CreateSnapshotIsUpsert ==
    (/\ Finished
     /\ vm_call.op = "create_snapshot"
     /\ \A i \in DOMAIN vm_log : vm_log[i][2] # "error")
        => (vm_result = "returned" /\ Present(vm_call.name))

\* reached: the second of two create_snapshot calls with the same name in a
\* row, both returned, the second having deleted the first one's snapshot
C17_Witness ==
    /\ Finished
    /\ vm_call.op = "create_snapshot"
    /\ vm_prev = <<"create_snapshot", vm_call.name, "returned">>
    /\ vm_result = "returned"
    /\ vm_log = <<(<<"delete", "ok">>), (<<"create", "ok">>)>>
    /\ Present(vm_call.name)

\* C18: delete_snapshot(name) of a snapshot that does not exist returns
\* normally.
C18_DeleteMissingSnapshotSucceeds ==
    (/\ Finished
     /\ vm_call.op = "delete_snapshot"
     /\ vm_log = <<(<<"delete", "no_snapshot">>)>>)
        => vm_result = "returned"

C20_RestartVmResult ==
    (Finished /\ vm_call.op = "restart_vm") =>
        LET started == \E i \in DOMAIN vm_log : vm_log[i] = <<"revert", "ok">>
            last == vm_log[Len(vm_log)]
        IN  /\ vm_log[1][1] = "list"
            /\ ~started => /\ vm_result \in {"RuntimeError", "CalledProcessError"}
                           /\ vm_result = "RuntimeError" <=> Len(vm_log) = 1
                           /\ Did("probe") = {}
            /\ (started /\ ~vm_call.wait) => (vm_result = "true" /\ Did("probe") = {})
            /\ (started /\ vm_call.wait) =>
                  /\ vm_result \in {"true", "false"}
                  /\ vm_result = "true" <=> last = <<"probe", "ok">>
                  /\ vm_result = "false" <=>
                        /\ last = <<"probe", "fail">>
                        /\ Cardinality(Did("probe")) = DefaultMaxAttempts

\* reached: restart_vm(True) returned false after a good start and the
\* default number of failed probes
C20_Witness ==
    /\ Finished
    /\ vm_call.op = "restart_vm"
    /\ vm_call.wait
    /\ vm_result = "false"
    /\ Cardinality(Did("probe")) = DefaultMaxAttempts
    /\ \E i \in DOMAIN vm_log : vm_log[i] = <<"revert", "ok">>

\* C21: is_running() always returns a boolean: true exactly when the state
\* query gave "running", false for every other state and every failure.
C21_IsRunningNeverFails ==
    (Finished /\ vm_call.op = "is_running")
        => vm_result = (IF vm_log[1][2] = "running" THEN "true" ELSE "false")

\* C22: the auto-revert flag changes only in enable_auto_revert() and
\* disable_auto_revert(); heartbeats, reset(), manual stops, VM starts and
\* stops, snapshot changes, ticks and the recovery callback leave it alone.
C22_AutoRevertChangedOnlyByEnableDisable ==
    [][auto_revert_enabled' # auto_revert_enabled
          => (EnableAutoRevert \/ DisableAutoRevert)]_vars

\* reached: the flag was switched on by enable_auto_revert(), and a recovery
\* callback has since run to its end, reset() included, with the flag still on
C22_Witness ==
    /\ enabled_at # None
    /\ auto_revert_enabled
    /\ cb_restart_returned
    /\ cb_outcome = "failure_logged"

\* C23: the enabled field of get_status() equals the auto-revert flag.
C23_StatusEnabledMirrorsAutoRevert == GetStatusEnabled = auto_revert_enabled

\* reached: the loop has recorded that it is monitoring while the flag is off
\* (the flag was switched off since the last tick)
C23_Witness ==
    /\ was_monitoring
    /\ ~auto_revert_enabled
    /\ ~GetStatusEnabled

\* C24: reset(), however old the last heartbeat, leaves last_heartbeat unset
\* and has_received_heartbeat false, and is_timed_out() right after it is false.
C24_ResetClearsTimer ==
    [][\A w \in Workers : (StartVmBegin(w) /\ job'[w] = "revert") =>
          /\ last_heartbeat' = None
          /\ ~actual_heartbeat_received'
          /\ ~IsTimedOut']_vars

\* reached: reset() has just run on a heartbeat that had timed out
C24_Witness ==
    /\ \E w \in Workers : job[w] = "revert"
    /\ last_heartbeat = None
    /\ ~actual_heartbeat_received
    /\ auto_revert_enabled
    /\ fired = "timeout"
    /\ cb_since_hb >= 1

\* C25: a tick invokes the recovery callback only with auto-revert enabled,
\* manual stop unset, and the VM not running or is_timed_out() true at that
\* tick; a running VM whose last heartbeat is at most the timeout old causes
\* no invocation.
C25_CallbackOnlyOnFailure ==
    [][Tick =>
        /\ fired' # "none" =>
              /\ auto_revert_enabled
              /\ ~manual_stop
              /\ ~vm_running \/ TimedOut(auto_revert_enabled, last_heartbeat', now)
              /\ task' = "cb_restart"
        /\ fired' = "none" => task' = "sleep"
        /\ (vm_running /\ last_heartbeat # None /\ now - last_heartbeat <= Timeout)
              => fired' = "none"]_vars

\* reached: a tick has just passed over a running VM whose heartbeat is
\* exactly the timeout old
C25_Witness ==
    /\ vm_running
    /\ auto_revert_enabled
    /\ ~manual_stop
    /\ was_monitoring
    /\ actual_heartbeat_received
    /\ now - last_heartbeat = Timeout
    /\ fired = "none"
    /\ task = "sleep"
    /\ wake = now + CheckInterval

\* C26: the loop invokes the callback at most once per tick: a tick that
\* finds the VM not running does not run the timeout check, and after a
\* callback whose restart failed the next invocation comes no sooner than
\* check_interval after the one before.
C26_RestartAttemptsSpaced ==
    [][Tick =>
        /\ fired' # "none" => cb_at = None \/ now - cb_at >= CheckInterval
        /\ (auto_revert_enabled /\ ~manual_stop /\ ~vm_running) => fired' = "vm_down"
        /\ cb_since_hb' <= cb_since_hb + 1]_vars

\* reached: the restart of the previous invocation failed, check_interval
\* has passed since that invocation, and the next tick is due with the VM
\* still down
C26_Witness ==
    /\ task = "sleep"
    /\ now >= wake
    /\ cb_outcome = "failure_logged"
    /\ ~cb_restart_returned
    /\ fired = "vm_down"
    /\ cb_at = None
    /\ auto_revert_enabled /\ ~manual_stop /\ ~vm_running

\* C27: an Exception raised by the callback, by the call itself or by the
\* awaited coroutine, after a VM-not-running finding or after a timeout
\* finding, leaves the loop task alive: it sleeps check_interval from then.
C27_CallbackFailureIsolated ==
    [][((TickAnyCallback /\ fired' # "none" /\ cb_outcome' = "raised")
          \/ (AnyCallbackEnds /\ cb_outcome' = "awaited_raised"))
        => /\ task' = "sleep"
           /\ wake' = now + CheckInterval
           /\ live_tasks' = 1]_vars

\* reached: after a callback awaited on a timeout finding raised, a later
\* tick has run (and found nothing)
C27_Witness ==
    /\ cb_outcome = "awaited_raised"
    /\ fired = "none"
    /\ task = "sleep"
    /\ vm_running
    /\ cb_since_hb >= 1
    /\ actual_heartbeat_received

\* C28: the loop stays inside an invoked callback until it completes: while
\* the callback's restart or settle delay is under way the task is neither
\* sleeping nor ticking, so no tick runs, and no second callback starts,
\* with a monitor-initiated restart in flight.
C28_CallbackAwaitedBeforeNextTick ==
    /\ [](job["mon"] # "idle" => task = "cb_restart")
    /\ [][Tick => /\ job["mon"] = "idle"
                  /\ task = "sleep"
                  /\ fired' # "none" => job'["mon"] = "start"]_vars

\* reached: the callback's restart is still reverting after the time at
\* which the loop's sleep would have ended
C28_Witness ==
    /\ task = "cb_restart"
    /\ job["mon"] = "revert"
    /\ fired = "timeout"
    /\ now > wake

\* C29: at no time are two snapshot-revert operations in progress at once,
\* whatever the interleaving of the monitor's recovery with operator start
\* requests.
C29_NoConcurrentReverts ==
    Cardinality({w \in Workers : job[w] = "revert"}) <= 1

\* C30: after a restart has completed, a timestamp recorded by a heartbeat
\* of the previous VM (one that arrived after reset() and before the revert
\* finished) does not make a tick find a timeout sooner than the timeout
\* after the restart.
C30_StaleHeartbeatNoEarlyTimeout ==
    [][(/\ Tick
        /\ fired' = "timeout"
        /\ last_heartbeat = hb_at
        /\ restarted_at # None)
       => now - restarted_at >= Timeout]_vars

\* C31: only set_manual_stop() and clear_manual_stop() change the
\* manual-stop flag; reset() leaves it, and the was-monitoring flag, as they
\* were.
C31_ManualStopChangedOnlyBySetClear ==
    [][/\ manual_stop' # manual_stop => (SetManualStop \/ ClearManualStop)
       /\ \A w \in Workers :
            StartVmBegin(w) => /\ manual_stop' = manual_stop
                               /\ was_monitoring' = was_monitoring]_vars

\* C33: create_snapshot(name) passes over a failed delete only when the
\* failure says that no snapshot of that name exists; after any other
\* failure of the delete it raises and does not attempt the create.
C33_CreateSnapshotPropagatesDeleteFailure ==
    (/\ Finished
     /\ vm_call.op = "create_snapshot"
     /\ vm_log[1] = <<"delete", "error">>)
        => (vm_result = "CalledProcessError" /\ Did("create") = {})

\* C36: while auto-revert is disabled no restart started by the monitor
\* begins its snapshot-revert, also when the disable comes after the
\* callback has handed restart_vm to its worker.
C36_NoMonitorRevertWhileDisabled ==
    [][(StartVmBegin("mon") /\ job'["mon"] = "revert") => auto_revert_enabled]_vars

\* C38: has_received_heartbeat implies that last_heartbeat is set, so
\* get_status() reports a last_heartbeat exactly when has_received_heartbeat
\* is true.
C38_ReceivedImpliesTimestamp ==
    /\ actual_heartbeat_received => last_heartbeat # None
    /\ (GetStatusLastHeartbeat # None) <=> actual_heartbeat_received

\* reached: a heartbeat has been received since the latest reset() and the
\* loop has re-stamped the timer after it
C38_Witness ==
    /\ actual_heartbeat_received
    /\ hb_at # None
    /\ armed
    /\ last_heartbeat # hb_at
    /\ GetStatusLastHeartbeat = last_heartbeat

\* C32: after auto-revert has been off for longer than the timeout and is
\* switched on again, is_timed_out() (and get_status()'s is_timed_out),
\* asked before the loop's next tick, is false until the timeout has passed
\* since the switching-on.
C32_NoTimeoutRightAfterReenable ==
    (/\ auto_revert_enabled
     /\ off_period = "long"
     /\ ~was_monitoring
     /\ now - enabled_at <= Timeout)
        => ~IsTimedOut

\* C34: when the restart_vm of startup returns without raising, startup
\* reaches the serving state with exactly one loop task running, and the
\* shutdown that follows stops that task.
C34_StartupReachesServing ==
    [][/\ (LifespanAfterRestart /\ job["mon"] = "returned")
            => (lifespan_pc' = "serving" /\ live_tasks' = 1)
       /\ (LifespanExit /\ lifespan_pc # "restart_failed")
            => (lifespan_pc' = "stopped" /\ live_tasks' = 0)]_vars

\* C35: however reset() on a worker thread interleaves with is_timed_out()
\* and the loop's iterations, is_timed_out() returns without failing and
\* the loop task goes on; only stop_monitoring() ends it.
C35_ResetRaceHarmless ==
    [][/\ TimeoutCheckSubtract => last_heartbeat # None
       /\ (task # "none" /\ task' = "none") => StopMonitoring]_vars

\* the loop sleeps with auto-revert on, manual stop unset, the VM running
\* and no timestamp (never a heartbeat, or none since reset()), early enough
\* for the clock to reach the end of the grace period
GraceStart ==
    /\ task = "sleep"
    /\ auto_revert_enabled /\ ~manual_stop /\ vm_running
    /\ last_heartbeat = None
    /\ (IF wake > now THEN wake ELSE now) + Timeout + CheckInterval <= MaxTime

\* C37: with the loop running, auto-revert on, manual stop unset, the VM
\* running and no heartbeat after construction or after a restart's reset(),
\* the loop's next iteration stamps the timer and the loop goes on to invoke
\* the callback for a timeout.
C37_SilentGuestEventuallyRecovered ==
    GraceStart ~> (task = "cb_restart" /\ fired = "timeout")

\* reached: the callback invoked for a timeout a second time with no
\* heartbeat ever received, the restart of the first invocation having reset
\* the monitor
C37_Witness ==
    /\ task = "cb_restart"
    /\ fired = "timeout"
    /\ ~actual_heartbeat_received
    /\ cb_since_hb >= 2
    /\ vm_running

====
